---- MODULE Spec2Model ----
(***************************************************************************)
(* Model of mcpo (src/src/mcpo/main.py): a proxy that spawns MCP tool      *)
(* servers, lists their tools and registers one HTTP POST endpoint per     *)
(* tool.  The model covers run(), lifespan(), create_dynamic_endpoints(),  *)
(* the two endpoint handlers and process_tool_response().                  *)
(***************************************************************************)
EXTENDS Integers, Sequences, FiniteSets, TLC

VARIABLES
    server_command,  \* run(): kwargs["server_command"], a sequence
    config,          \* run(): the config file behind kwargs["config"]
    api_key,         \* run(): the api_key argument, "" when there is none
    apiDependency,   \* app.state.api_dependency of every app, "" for None
    runPc,           \* position of run() / of the main app's lifespan
    command,         \* app.state.command of every app
    mounts,          \* app.routes: the sub-apps mounted on every app, in order
    mountIdx,        \* lifespan(app): number of mounts already entered
    stack,           \* lifespan(app): the apps entered on its AsyncExitStack
    lifePc,          \* position of lifespan(app) of every app
    transport,       \* stdio_client(...) context of every app
    session,         \* ClientSession(...) context of every app
    stateSession,    \* app.state.session of every app
    exc,             \* lifespan(app): an exception is propagating
    tools,           \* create_dynamic_endpoints: tools_result.tools
    regIdx,          \* create_dynamic_endpoints: tools already registered
    routes,          \* the POST routes registered on every app
    req,             \* the HTTP request being served (at most one)
    callResult,      \* process_tool_response: its argument
    response,        \* process_tool_response: its return value
    normPc,          \* "idle" | "input" | "done"
    toolIn,          \* create_dynamic_endpoints: one tool of the loop
    routeOut,        \* the route registered for toolIn
    regPc            \* "idle" | "input" | "done"

vars == <<server_command, config, api_key, apiDependency, runPc, command, mounts, mountIdx, stack,
          lifePc, transport, session, stateSession, exc, tools, regIdx,
          routes, req, callResult, response, normPc, toolIn, routeOut,
          regPc>>

lifeVars == <<server_command, config, api_key, apiDependency, runPc, command, mounts, mountIdx, stack,
              lifePc, transport, session, stateSession, exc, tools,
              regIdx, routes, req>>

normVars == <<callResult, response, normPc, toolIn, routeOut, regPc>>

typeVars == <<toolIn, routeOut, regPc>>

-----------------------------------------------------------------------------
(* Bounds *)

MaxTools == 2        \* longest tool listing a backend returns
MaxParts == 2        \* most content parts in one CallToolResult
MaxTextLen == 2      \* longest text of a TextContent part

-----------------------------------------------------------------------------
(* Finite sequences *)

SeqUpTo(S, n) == UNION {[1..k -> S] : k \in 0..n}

Range(s) == {s[i] : i \in 1..Len(s)}

-----------------------------------------------------------------------------
(* get_python_type *)

\* the chain without its fallback branch
get_python_type_no_fallback(param_type) ==
    IF param_type = "string" THEN "str"
    ELSE IF param_type = "integer" THEN "int"
    ELSE IF param_type = "boolean" THEN "bool"
    ELSE IF param_type = "number" THEN "float"
    ELSE IF param_type = "object" THEN "Dict[str, Any]"
    ELSE IF param_type = "array" THEN "list"
    ELSE "None"

get_python_type(param_type) ==
    IF param_type = "string" THEN "str"
    ELSE IF param_type = "integer" THEN "int"
    ELSE IF param_type = "boolean" THEN "bool"
    ELSE IF param_type = "number" THEN "float"
    ELSE IF param_type = "object" THEN "Dict[str, Any]"
    ELSE IF param_type = "array" THEN "list"
    ELSE "str"

-----------------------------------------------------------------------------
(* json.loads over texts written in the characters 1 [ ] a.  Over this     *)
(* alphabet the JSON documents are the numbers 1, 11, ... and the arrays   *)
(* [], [v] of one document (there is no comma).  A text is a sequence of   *)
(* characters; a decoded number is [int |-> n], a decoded array is         *)
(* [list |-> <<...>>], and a string value is [str |-> text].               *)

Chars == {"1", "[", "]", "a"}

Texts == SeqUpTo(Chars, MaxTextLen)

IsNumber(text) == Len(text) > 0 /\ \A i \in 1..Len(text) : text[i] = "1"

RECURSIVE NumberValue(_)
NumberValue(text) ==
    IF Len(text) = 0 THEN 0
    ELSE 10 * NumberValue(SubSeq(text, 1, Len(text) - 1)) + 1

RECURSIVE IsJson(_)
IsJson(text) ==
    \/ IsNumber(text)
    \/ /\ Len(text) >= 2
       /\ text[1] = "["
       /\ text[Len(text)] = "]"
       /\ \/ Len(text) = 2
          \/ IsJson(SubSeq(text, 2, Len(text) - 1))

RECURSIVE json_loads(_)
json_loads(text) ==
    IF IsNumber(text) THEN [int |-> NumberValue(text)]
    ELSE IF Len(text) = 2 THEN [list |-> <<>>]
    ELSE [list |-> <<json_loads(SubSeq(text, 2, Len(text) - 1))>>]

-----------------------------------------------------------------------------
(* Content parts of a CallToolResult.  "audio" stands for every part type  *)
(* that is none of TextContent, ImageContent, EmbeddedResource.            *)

TextContent(text) == [type |-> "text", text |-> text]
ImageContent == [type |-> "image", mimeType |-> <<"image/png">>, data |-> <<"AAAA">>]
EmbeddedResource == [type |-> "resource"]
AudioContent == [type |-> "audio"]

Parts == {TextContent(t) : t \in Texts}
            \cup {ImageContent, EmbeddedResource, AudioContent}

CallToolResults == [isError : BOOLEAN, content : SeqUpTo(Parts, MaxParts)]

NotSupported == [str |-> <<"Embedded resource not supported yet.">>]

\* a text part passed on as it is, without json.loads
process_part_raw(content) ==
    IF content.type = "text"
    THEN <<[str |-> content.text]>>
    ELSE IF content.type = "image"
    THEN <<[str |-> <<"data:">> \o content.mimeType \o <<";base64,">> \o content.data]>>
    ELSE IF content.type = "resource"
    THEN <<NotSupported>>
    ELSE <<>>

process_part(content) ==
    IF content.type = "text"
    THEN <<IF IsJson(content.text) THEN json_loads(content.text)
                                   ELSE [str |-> content.text]>>
    ELSE IF content.type = "image"
    THEN <<[str |-> <<"data:">> \o content.mimeType \o <<";base64,">> \o content.data]>>
    ELSE IF content.type = "resource"
    THEN <<NotSupported>>
    ELSE <<>>

RECURSIVE process_content(_)
process_content(content) ==
    IF Len(content) = 0 THEN <<>>
    ELSE process_part(Head(content)) \o process_content(Tail(content))

process_tool_response(result) == process_content(result.content)

-----------------------------------------------------------------------------
(* Tool descriptors a backend may list.  A schema key that is absent from  *)
(* the JSON object has its has* flag FALSE.                                *)

ParamSchema(type) == [hasType |-> TRUE, type |-> type, description |-> "d"]

NoProperties == [p \in {} |-> ParamSchema("string")]

T_search ==
    [name |-> "search", description |-> "search v1",
     inputSchema |->
        [hasProperties |-> TRUE,
         properties |-> [p \in {"q", "limit"} |->
                            IF p = "q" THEN ParamSchema("string")
                                       ELSE ParamSchema("integer")],
         hasRequired |-> TRUE,
         required |-> {"q"}]]

T_ping ==
    [name |-> "ping", description |-> "ping",
     inputSchema |->
        [hasProperties |-> FALSE, properties |-> NoProperties,
         hasRequired |-> FALSE, required |-> {}]]

T_search2 ==
    [name |-> "search", description |-> "search v2",
     inputSchema |->
        [hasProperties |-> TRUE, properties |-> NoProperties,
         hasRequired |-> TRUE,
         required |-> {"q"}]]

Catalogue == {T_search, T_ping, T_search2}

ToolListings == SeqUpTo(Catalogue, MaxTools)

ToolNames == {t.name : t \in Catalogue}

-----------------------------------------------------------------------------
(* Request bodies: a JSON object over the keys q, limit and extra, or no   *)
(* body at all.  A key is absent, null, or carries a value of the declared *)
(* type.                                                                   *)

BodyKeys == {"q", "limit", "extra"}

NoBody == [present |-> FALSE, fields |-> [k \in BodyKeys |-> "absent"]]

Bodies ==
    {NoBody} \cup
    {[present |-> TRUE, fields |-> f] :
        f \in {g \in [BodyKeys -> {"absent", "null", "v"}] : g["extra"] # "null"}}

-----------------------------------------------------------------------------
(* What the backend answers to one call_tool: the call raises, or returns  *)
(* a CallToolResult.                                                       *)

Raised == [raised |-> TRUE, result |-> [isError |-> TRUE, content |-> <<>>]]

Returned(result) == [raised |-> FALSE, result |-> result]

Replies ==
    {Raised,
     Returned([isError |-> FALSE, content |-> <<TextContent(<<"[", "]">>)>>]),
     Returned([isError |-> TRUE, content |-> <<TextContent(<<"a">>)>>])}

-----------------------------------------------------------------------------
(* Inputs of run(): server_command and the config file.                    *)

Apps == {"main", "A", "B"}

NoConfig == [given |-> FALSE, hasServers |-> FALSE, mcpServers |-> <<>>]

ConfigFile(hasServers, servers) ==
    [given |-> TRUE, hasServers |-> hasServers, mcpServers |-> servers]

ServerCfg(name, hasCommand, cmd) ==
    [name |-> name, hasCommand |-> hasCommand, command |-> cmd]

ServerCfgs(name) ==
    {ServerCfg(name, TRUE, "x"), ServerCfg(name, TRUE, ""),
     ServerCfg(name, FALSE, "")}

ConfigFiles ==
    {ConfigFile(FALSE, <<>>), ConfigFile(TRUE, <<>>)}
        \cup {ConfigFile(TRUE, <<a>>) : a \in ServerCfgs("A")}
        \cup {ConfigFile(TRUE, <<a, b>>) :
                a \in ServerCfgs("A"), b \in ServerCfgs("B")}

ApiKeys == {"", "k"}

RunInputs ==
    {<<<<>>, c>> : c \in {NoConfig} \cup ConfigFiles}
        \cup {<<<<"cmd">>, c>> : c \in {NoConfig, ConfigFile(TRUE, <<>>)}}

-----------------------------------------------------------------------------
(* Initial state: run() has been called and nothing has happened yet.      *)

InitApps ==
    /\ apiDependency = [a \in Apps |-> ""]
    /\ runPc = "start"
    /\ command = [a \in Apps |-> ""]
    /\ mounts = [a \in Apps |-> <<>>]
    /\ mountIdx = [a \in Apps |-> 0]
    /\ stack = [a \in Apps |-> <<>>]
    /\ lifePc = [a \in Apps |-> "unstarted"]
    /\ transport = [a \in Apps |-> "none"]
    /\ session = [a \in Apps |-> "none"]
    /\ stateSession = [a \in Apps |-> "none"]
    /\ exc = [a \in Apps |-> FALSE]
    /\ tools = [a \in Apps |-> <<>>]
    /\ regIdx = [a \in Apps |-> 0]
    /\ routes = [a \in Apps |-> <<>>]
    /\ req = <<>>

InitLife ==
    /\ \E in \in RunInputs : server_command = in[1] /\ config = in[2]
    /\ api_key \in ApiKeys
    /\ InitApps

InitNormIdle ==
    /\ callResult = [isError |-> FALSE, content |-> <<>>]
    /\ response = <<>>
    /\ normPc = "idle"

InitTypesIdle ==
    /\ toolIn = T_ping
    /\ routeOut = <<>>
    /\ regPc = "idle"

Init == InitLife /\ InitNormIdle /\ InitTypesIdle

-----------------------------------------------------------------------------
(* run(): everything up to server.serve().  The outcome is the exception   *)
(* it raises, or "startup" when the server is about to run the lifespan.   *)

\* get_verify_api_key(api_key): the guard that accepts exactly this key
get_verify_api_key(key) == key

\* the guard lets a request with this credential through
verify_api_key(dependency, credential) == credential = dependency

\* line 169
api_dependency == IF api_key # "" THEN get_verify_api_key(api_key) ELSE ""

McpServers == IF config.hasServers THEN config.mcpServers ELSE <<>>

\* the first server entry without a "command" key, or 0
FirstKeyError ==
    IF \E i \in 1..Len(McpServers) : ~McpServers[i].hasCommand
    THEN CHOOSE i \in 1..Len(McpServers) :
            /\ ~McpServers[i].hasCommand
            /\ \A j \in 1..(i - 1) : McpServers[j].hasCommand
    ELSE 0

\* the sub-apps the loop has mounted when it ends or raises
Mounted ==
    IF FirstKeyError = 0 THEN McpServers
    ELSE SubSeq(McpServers, 1, FirstKeyError - 1)

\* lines 200-206
run_command ==
    /\ command' = [command EXCEPT !["main"] = server_command[1]]
    /\ apiDependency' = [apiDependency EXCEPT !["main"] = api_dependency]
    /\ runPc' = "startup"
    /\ UNCHANGED mounts

\* lines 214-238: one sub-app per server, mounted on the main app
mount_servers ==
    /\ command' = [a \in Apps |->
            IF \E i \in 1..Len(Mounted) : Mounted[i].name = a
            THEN (CHOOSE c \in Range(Mounted) : c.name = a).command
            ELSE command[a]]
    /\ apiDependency' = [a \in Apps |->
            IF \E i \in 1..Len(Mounted) : Mounted[i].name = a
            THEN api_dependency
            ELSE apiDependency[a]]
    /\ mounts' = [mounts EXCEPT !["main"] =
            [i \in 1..Len(Mounted) |-> Mounted[i].name]]
    /\ runPc' = IF FirstKeyError = 0 THEN "startup" ELSE "KeyError"

\* the config branch without the check of line 211
run_config_unchecked == mount_servers

\* lines 207-238
run_config ==
    IF McpServers = <<>>
    THEN /\ runPc' = "ValueError"
         /\ UNCHANGED <<command, mounts, apiDependency>>
    ELSE mount_servers

\* lines 239-240
run_neither ==
    /\ runPc' = "ValueError"
    /\ UNCHANGED <<command, mounts, apiDependency>>

run ==
    /\ runPc = "start"
    /\ IF server_command # <<>> THEN run_command
       ELSE IF config.given THEN run_config
       ELSE run_neither
    /\ UNCHANGED <<server_command, config, api_key, mountIdx, stack, lifePc,
                   transport, session, stateSession, exc, tools, regIdx,
                   routes, req>>
    /\ UNCHANGED normVars

-----------------------------------------------------------------------------
(* server.serve(): uvicorn runs the main app's lifespan up to its yield,   *)
(* then serves requests; a lifespan that raises during startup makes the   *)
(* server exit without serving.  On shutdown uvicorn stops accepting       *)
(* requests, waits for the request in flight and resumes the lifespan.     *)

InFlight == req # <<>> /\ req[1].status = 0

\* where lifespan(a) continues when its yield returns or raises
AfterYield(a) == IF command[a] # "" THEN "exit_session" ELSE "exiting"

serve ==
    /\ runPc = "startup"
    /\ lifePc["main"] = "unstarted"
    /\ lifePc' = [lifePc EXCEPT !["main"] = "start"]
    /\ UNCHANGED <<server_command, config, api_key, apiDependency, runPc, command, mounts, mountIdx,
                   stack, transport, session, stateSession, exc, tools,
                   regIdx, routes, req>>
    /\ UNCHANGED normVars

startup_complete ==
    /\ runPc = "startup"
    /\ lifePc["main"] = "yielded"
    /\ runPc' = "serving"
    /\ UNCHANGED <<server_command, config, api_key, apiDependency, command, mounts, mountIdx, stack,
                   lifePc, transport, session, stateSession, exc, tools,
                   regIdx, routes, req>>
    /\ UNCHANGED normVars

startup_failed ==
    /\ runPc = "startup"
    /\ lifePc["main"] = "raised"
    /\ runPc' = "startup_failed"
    /\ UNCHANGED <<server_command, config, api_key, apiDependency, command, mounts, mountIdx, stack,
                   lifePc, transport, session, stateSession, exc, tools,
                   regIdx, routes, req>>
    /\ UNCHANGED normVars

shutdown ==
    /\ runPc = "serving"
    /\ runPc' = "shutdown"
    /\ UNCHANGED <<server_command, config, api_key, apiDependency, command, mounts, mountIdx, stack,
                   lifePc, transport, session, stateSession, exc, tools,
                   regIdx, routes, req>>
    /\ UNCHANGED normVars

lifespan_shutdown ==
    /\ runPc = "shutdown"
    /\ lifePc["main"] = "yielded"
    /\ ~InFlight
    /\ lifePc' = [lifePc EXCEPT !["main"] = AfterYield("main")]
    /\ req' = <<>>
    /\ UNCHANGED <<server_command, config, api_key, apiDependency, runPc, command, mounts, mountIdx,
                   stack, transport, session, stateSession, exc, tools,
                   regIdx, routes>>
    /\ UNCHANGED normVars

stopped ==
    /\ runPc = "shutdown"
    /\ lifePc["main"] \in {"done", "raised"}
    /\ runPc' = "stopped"
    /\ UNCHANGED <<server_command, config, api_key, apiDependency, command, mounts, mountIdx, stack,
                   lifePc, transport, session, stateSession, exc, tools,
                   regIdx, routes, req>>
    /\ UNCHANGED normVars

-----------------------------------------------------------------------------
(* lifespan(app), the branch without a command (lines 138-145): enter the  *)
(* lifespan of every mounted sub-app in order on an AsyncExitStack, yield, *)
(* and leave the entered ones in reverse order.                            *)

open_stack(a) ==
    /\ lifePc[a] = "start"
    /\ command[a] = ""
    /\ lifePc' = [lifePc EXCEPT ![a] = "entering"]
    /\ UNCHANGED <<server_command, config, api_key, apiDependency, runPc, command, mounts, mountIdx,
                   stack, transport, session, stateSession, exc, tools,
                   regIdx, routes, req>>
    /\ UNCHANGED normVars

enter_mount(a) ==
    /\ lifePc[a] = "entering"
    /\ mountIdx[a] < Len(mounts[a])
    /\ lifePc[mounts[a][mountIdx[a] + 1]] = "unstarted"
    /\ lifePc' = [lifePc EXCEPT ![mounts[a][mountIdx[a] + 1]] = "start"]
    /\ UNCHANGED <<server_command, config, api_key, apiDependency, runPc, command, mounts, mountIdx,
                   stack, transport, session, stateSession, exc, tools,
                   regIdx, routes, req>>
    /\ UNCHANGED normVars

mount_entered(a) ==
    /\ lifePc[a] = "entering"
    /\ mountIdx[a] < Len(mounts[a])
    /\ lifePc[mounts[a][mountIdx[a] + 1]] = "yielded"
    /\ stack' = [stack EXCEPT ![a] = Append(@, mounts[a][mountIdx[a] + 1])]
    /\ mountIdx' = [mountIdx EXCEPT ![a] = @ + 1]
    /\ UNCHANGED <<server_command, config, api_key, apiDependency, runPc, command, mounts, lifePc,
                   transport, session, stateSession, exc, tools, regIdx,
                   routes, req>>
    /\ UNCHANGED normVars

\* the loop without an exit stack: the entered sub-apps are left as they are
mount_raised_no_unwind(a) ==
    /\ lifePc[a] = "entering"
    /\ mountIdx[a] < Len(mounts[a])
    /\ lifePc[mounts[a][mountIdx[a] + 1]] = "raised"
    /\ exc' = [exc EXCEPT ![a] = TRUE]
    /\ lifePc' = [lifePc EXCEPT ![a] = "raised"]
    /\ UNCHANGED <<server_command, config, api_key, apiDependency, runPc, command, mounts, mountIdx,
                   stack, transport, session, stateSession, tools, regIdx,
                   routes, req>>
    /\ UNCHANGED normVars

mount_raised(a) ==
    /\ lifePc[a] = "entering"
    /\ mountIdx[a] < Len(mounts[a])
    /\ lifePc[mounts[a][mountIdx[a] + 1]] = "raised"
    /\ exc' = [exc EXCEPT ![a] = TRUE]
    /\ lifePc' = [lifePc EXCEPT ![a] = "exiting"]
    /\ UNCHANGED <<server_command, config, api_key, apiDependency, runPc, command, mounts, mountIdx,
                   stack, transport, session, stateSession, tools, regIdx,
                   routes, req>>
    /\ UNCHANGED normVars

yield_stack(a) ==
    /\ lifePc[a] = "entering"
    /\ mountIdx[a] = Len(mounts[a])
    /\ lifePc' = [lifePc EXCEPT ![a] = "yielded"]
    /\ UNCHANGED <<server_command, config, api_key, apiDependency, runPc, command, mounts, mountIdx,
                   stack, transport, session, stateSession, exc, tools,
                   regIdx, routes, req>>
    /\ UNCHANGED normVars

exit_resume(a) ==
    /\ lifePc[a] = "exiting"
    /\ stack[a] # <<>>
    /\ lifePc[stack[a][Len(stack[a])]] = "yielded"
    /\ lifePc' = [lifePc EXCEPT ![stack[a][Len(stack[a])]] =
                        AfterYield(stack[a][Len(stack[a])])]
    /\ exc' = [exc EXCEPT ![stack[a][Len(stack[a])]] = exc[a]]
    /\ UNCHANGED <<server_command, config, api_key, apiDependency, runPc, command, mounts, mountIdx,
                   stack, transport, session, stateSession, tools, regIdx,
                   routes, req>>
    /\ UNCHANGED normVars

exit_pop(a) ==
    /\ lifePc[a] = "exiting"
    /\ stack[a] # <<>>
    /\ lifePc[stack[a][Len(stack[a])]] \in {"done", "raised"}
    /\ stack' = [stack EXCEPT ![a] = SubSeq(@, 1, Len(@) - 1)]
    /\ UNCHANGED <<server_command, config, api_key, apiDependency, runPc, command, mounts, mountIdx,
                   lifePc, transport, session, stateSession, exc, tools,
                   regIdx, routes, req>>
    /\ UNCHANGED normVars

stack_closed(a) ==
    /\ lifePc[a] = "exiting"
    /\ stack[a] = <<>>
    /\ lifePc' = [lifePc EXCEPT ![a] = IF exc[a] THEN "raised" ELSE "done"]
    /\ UNCHANGED <<server_command, config, api_key, apiDependency, runPc, command, mounts, mountIdx,
                   stack, transport, session, stateSession, exc, tools,
                   regIdx, routes, req>>
    /\ UNCHANGED normVars

-----------------------------------------------------------------------------
(* The FormModel of a tool and the two endpoint factories (lines 79-120).  *)

schema_required(schema) == IF schema.hasRequired THEN schema.required ELSE {}

schema_properties(schema) ==
    IF schema.hasProperties THEN schema.properties ELSE NoProperties

param_type(param_schema) ==
    IF param_schema.hasType THEN param_schema.type ELSE "string"

\* model_fields: one field per declared property; default "..." is required
model_fields(schema) ==
    [p \in DOMAIN schema_properties(schema) |->
        [python_type |-> get_python_type(param_type(schema_properties(schema)[p])),
         default |-> IF p \in schema_required(schema) THEN "..." ELSE "None"]]

create_model(endpoint_name, fields) ==
    [name |-> <<endpoint_name, "_form_model">>, fields |-> fields]

make_endpoint_func(endpoint_name, FormModel, sess) ==
    [kind |-> "args", endpoint_name |-> endpoint_name,
     FormModel |-> FormModel, session |-> sess]

make_endpoint_func_no_args(endpoint_name, sess) ==
    [kind |-> "no_args", endpoint_name |-> endpoint_name, session |-> sess]

tool_handler(tool, sess) ==
    IF DOMAIN model_fields(tool.inputSchema) # {}
    THEN make_endpoint_func(tool.name,
            create_model(tool.name, model_fields(tool.inputSchema)), sess)
    ELSE make_endpoint_func_no_args(tool.name, sess)

\* a route without dependencies whatever the api_dependency is
route_dependencies_none(dependency) == <<>>

\* line 126: [Depends(api_dependency)] if api_dependency else []
route_dependencies(dependency) ==
    IF dependency # "" THEN <<dependency>> ELSE <<>>

\* registration that skips a tool without model fields
app_post_skip(tool, sess, dependency) ==
    IF DOMAIN model_fields(tool.inputSchema) = {} THEN <<>>
    ELSE <<[path |-> tool.name, description |-> tool.description,
            dependencies |-> route_dependencies(dependency),
            endpoint |-> tool_handler(tool, sess)]>>

\* app.post(f"/{endpoint_name}", ...)(tool_handler)
app_post(tool, sess, dependency) ==
    <<[path |-> tool.name, description |-> tool.description,
       dependencies |-> route_dependencies(dependency),
       endpoint |-> tool_handler(tool, sess)]>>

\* one session slot shared by all apps, set by the first backend only
state_session_shared(a) ==
    IF stateSession["A"] # "none" THEN stateSession["A"] ELSE stateSession[a]

\* session = app.state.session
state_session(a) == stateSession[a]

-----------------------------------------------------------------------------
(* lifespan(app), the branch with a command (lines 147-158), with          *)
(* create_dynamic_endpoints (lines 57-127) inlined at its awaits.          *)

spawn(a) ==
    /\ lifePc[a] = "start"
    /\ command[a] # ""
    /\ transport' = [transport EXCEPT ![a] = "open"]
    /\ lifePc' = [lifePc EXCEPT ![a] = "spawned"]
    /\ UNCHANGED <<server_command, config, api_key, apiDependency, runPc, command, mounts, mountIdx,
                   stack, session, stateSession, exc, tools, regIdx, routes,
                   req>>
    /\ UNCHANGED normVars

spawn_fails(a) ==
    /\ lifePc[a] = "start"
    /\ command[a] # ""
    /\ exc' = [exc EXCEPT ![a] = TRUE]
    /\ lifePc' = [lifePc EXCEPT ![a] = "raised"]
    /\ UNCHANGED <<server_command, config, api_key, apiDependency, runPc, command, mounts, mountIdx,
                   stack, transport, session, stateSession, tools, regIdx,
                   routes, req>>
    /\ UNCHANGED normVars

open_session(a) ==
    /\ lifePc[a] = "spawned"
    /\ session' = [session EXCEPT ![a] = "open"]
    /\ stateSession' = [stateSession EXCEPT ![a] = a]
    /\ lifePc' = [lifePc EXCEPT ![a] = "connected"]
    /\ UNCHANGED <<server_command, config, api_key, apiDependency, runPc, command, mounts, mountIdx,
                   stack, transport, exc, tools, regIdx, routes, req>>
    /\ UNCHANGED normVars

initialize(a) ==
    /\ lifePc[a] = "connected"
    /\ IF state_session(a) = "none"
       THEN /\ exc' = [exc EXCEPT ![a] = TRUE]
            /\ lifePc' = [lifePc EXCEPT ![a] = "exit_session"]
       ELSE /\ lifePc' = [lifePc EXCEPT ![a] = "initialized"]
            /\ UNCHANGED exc
    /\ UNCHANGED <<server_command, config, api_key, apiDependency, runPc, command, mounts, mountIdx,
                   stack, transport, session, stateSession, tools, regIdx,
                   routes, req>>
    /\ UNCHANGED normVars

initialize_fails(a) ==
    /\ lifePc[a] = "connected"
    /\ exc' = [exc EXCEPT ![a] = TRUE]
    /\ lifePc' = [lifePc EXCEPT ![a] = "exit_session"]
    /\ UNCHANGED <<server_command, config, api_key, apiDependency, runPc, command, mounts, mountIdx,
                   stack, transport, session, stateSession, tools, regIdx,
                   routes, req>>
    /\ UNCHANGED normVars

list_tools(a) ==
    /\ lifePc[a] = "initialized"
    /\ \E listing \in ToolListings : tools' = [tools EXCEPT ![a] = listing]
    /\ lifePc' = [lifePc EXCEPT ![a] = "registering"]
    /\ UNCHANGED <<server_command, config, api_key, apiDependency, runPc, command, mounts, mountIdx,
                   stack, transport, session, stateSession, exc, regIdx,
                   routes, req>>
    /\ UNCHANGED normVars

list_tools_fails(a) ==
    /\ lifePc[a] = "initialized"
    /\ exc' = [exc EXCEPT ![a] = TRUE]
    /\ lifePc' = [lifePc EXCEPT ![a] = "exit_session"]
    /\ UNCHANGED <<server_command, config, api_key, apiDependency, runPc, command, mounts, mountIdx,
                   stack, transport, session, stateSession, tools, regIdx,
                   routes, req>>
    /\ UNCHANGED normVars

register_tool(a) ==
    /\ lifePc[a] = "registering"
    /\ regIdx[a] < Len(tools[a])
    /\ routes' = [routes EXCEPT ![a] =
                    @ \o app_post(tools[a][regIdx[a] + 1], state_session(a),
                                 apiDependency[a])]
    /\ regIdx' = [regIdx EXCEPT ![a] = @ + 1]
    /\ UNCHANGED <<server_command, config, api_key, apiDependency, runPc, command, mounts, mountIdx,
                   stack, lifePc, transport, session, stateSession, exc,
                   tools, req>>
    /\ UNCHANGED normVars

\* the yield reached while the registration loop is still running
yield_session_early(a) ==
    /\ lifePc[a] = "registering"
    /\ lifePc' = [lifePc EXCEPT ![a] = "yielded"]
    /\ UNCHANGED <<server_command, config, api_key, apiDependency, runPc, command, mounts, mountIdx,
                   stack, transport, session, stateSession, exc, tools,
                   regIdx, routes, req>>
    /\ UNCHANGED normVars

yield_session(a) ==
    /\ lifePc[a] = "registering"
    /\ regIdx[a] = Len(tools[a])
    /\ lifePc' = [lifePc EXCEPT ![a] = "yielded"]
    /\ UNCHANGED <<server_command, config, api_key, apiDependency, runPc, command, mounts, mountIdx,
                   stack, transport, session, stateSession, exc, tools,
                   regIdx, routes, req>>
    /\ UNCHANGED normVars

close_session(a) ==
    /\ lifePc[a] = "exit_session"
    /\ session' = [session EXCEPT ![a] = "closed"]
    /\ lifePc' = [lifePc EXCEPT ![a] = "exit_transport"]
    /\ UNCHANGED <<server_command, config, api_key, apiDependency, runPc, command, mounts, mountIdx,
                   stack, transport, stateSession, exc, tools, regIdx, routes,
                   req>>
    /\ UNCHANGED normVars

\* a lifespan that connects anew after a failure
close_transport_reconnect(a) ==
    /\ lifePc[a] = "exit_transport"
    /\ transport' = [transport EXCEPT ![a] = "closed"]
    /\ lifePc' = [lifePc EXCEPT ![a] = IF exc[a] THEN "start" ELSE "done"]
    /\ UNCHANGED <<server_command, config, api_key, apiDependency, runPc, command, mounts, mountIdx,
                   stack, session, stateSession, exc, tools, regIdx, routes,
                   req>>
    /\ UNCHANGED normVars

close_transport(a) ==
    /\ lifePc[a] = "exit_transport"
    /\ transport' = [transport EXCEPT ![a] = "closed"]
    /\ lifePc' = [lifePc EXCEPT ![a] = IF exc[a] THEN "raised" ELSE "done"]
    /\ UNCHANGED <<server_command, config, api_key, apiDependency, runPc, command, mounts, mountIdx,
                   stack, session, stateSession, exc, tools, regIdx, routes,
                   req>>
    /\ UNCHANGED normVars

-----------------------------------------------------------------------------
(* Serving one request: the router picks the first route whose path        *)
(* matches, the body is validated against the FormModel, and the handler   *)
(* (lines 99-102, 112-116) awaits one call_tool and normalizes its result. *)
(* status 0 is a request whose handler is waiting for the backend.         *)

EmptyArgs == [p \in {} |-> "v"]

\* a router that lets the route registered last handle the path
match_last(a, path) ==
    IF \E i \in 1..Len(routes[a]) : routes[a][i].path = path
    THEN CHOOSE i \in 1..Len(routes[a]) :
            /\ routes[a][i].path = path
            /\ \A j \in (i + 1)..Len(routes[a]) : routes[a][j].path # path
    ELSE 0

\* index of the first route of app a with this path, 0 when there is none
match(a, path) ==
    IF \E i \in 1..Len(routes[a]) : routes[a][i].path = path
    THEN CHOOSE i \in 1..Len(routes[a]) :
            /\ routes[a][i].path = path
            /\ \A j \in 1..(i - 1) : routes[a][j].path # path
    ELSE 0

\* the body decodes into the FormModel: it is present, every required field
\* has a value, and no optional field is null (the field types are not
\* Optional)
validates(FormModel, body) ==
    /\ body.present
    /\ \A f \in DOMAIN FormModel.fields :
          IF FormModel.fields[f].default = "..."
          THEN body.fields[f] = "v"
          ELSE body.fields[f] \in {"absent", "v"}

\* the decoded model: absent fields take their default None
form_data(FormModel, body) ==
    [f \in DOMAIN FormModel.fields |->
        IF body.fields[f] \in {"absent", "null"} THEN "None" ELSE body.fields[f]]

\* form_data.model_dump() without exclude_none
model_dump_all(data) == data

\* form_data.model_dump(exclude_none=True)
model_dump(data) ==
    [f \in {g \in DOMAIN data : data[g] # "None"} |-> data[f]]

call_tool(sess, name, arguments) ==
    [session |-> sess, name |-> name, arguments |-> arguments]

\* the handler up to its await: the calls it issues and the status so far
tool(h, body) ==
    IF h.kind = "args"
    THEN IF validates(h.FormModel, body)
         THEN [status |-> 0,
               calls |-> <<call_tool(h.session, h.endpoint_name,
                                     model_dump(form_data(h.FormModel, body)))>>]
         ELSE [status |-> 422, calls |-> <<>>]
    ELSE [status |-> 0,
          calls |-> <<call_tool(h.session, h.endpoint_name, EmptyArgs)>>]

\* the status of the response for what call_tool did
reply_status(r) == IF r.raised THEN 500 ELSE 200

Served(a) == a = "main" \/ a \in Range(mounts["main"])

\* every dependency of the route lets the request through
authorized(route, credential) ==
    \A i \in 1..Len(route.dependencies) :
        verify_api_key(route.dependencies[i], credential)

\* the credentials a client sends: none, or the configured key
Credentials == IF api_key = "" THEN {"none"} ELSE {"none", api_key}

dispatch(a, path, body, credential) ==
    /\ runPc = "serving"
    /\ Served(a)
    /\ req = <<>>
    /\ LET i == match(a, path)
           h == IF i = 0 THEN [status |-> 404, calls |-> <<>>]
                ELSE IF ~authorized(routes[a][i], credential)
                THEN [status |-> 401, calls |-> <<>>]
                ELSE tool(routes[a][i].endpoint, body)
       IN  req' = <<[app |-> a, path |-> path, body |-> body,
                     credential |-> credential, route |-> i,
                     status |-> h.status, calls |-> h.calls,
                     reply |-> <<>>, responseBody |-> <<>>]>>
    /\ UNCHANGED <<server_command, config, api_key, apiDependency, runPc, command, mounts, mountIdx,
                   stack, lifePc, transport, session, stateSession, exc,
                   tools, regIdx, routes>>
    /\ UNCHANGED normVars

backend_reply(r) ==
    /\ InFlight
    /\ req' = <<[req[1] EXCEPT
                    !.status = reply_status(r),
                    !.reply = <<r>>,
                    !.responseBody = IF r.raised THEN <<>>
                                     ELSE process_tool_response(r.result)]>>
    /\ UNCHANGED <<server_command, config, api_key, apiDependency, runPc, command, mounts, mountIdx,
                   stack, lifePc, transport, session, stateSession, exc,
                   tools, regIdx, routes>>
    /\ UNCHANGED normVars

\* the response has been sent and the connection is free again
request_done ==
    /\ req # <<>>
    /\ ~InFlight
    /\ req' = <<>>
    /\ UNCHANGED <<server_command, config, api_key, apiDependency, runPc, command, mounts, mountIdx,
                   stack, lifePc, transport, session, stateSession, exc,
                   tools, regIdx, routes>>
    /\ UNCHANGED normVars

-----------------------------------------------------------------------------
(* The program *)

Next ==
    \/ run
    \/ serve
    \/ startup_complete
    \/ startup_failed
    \/ shutdown
    \/ lifespan_shutdown
    \/ stopped
    \/ \E a \in Apps : open_stack(a)
    \/ \E a \in Apps : enter_mount(a)
    \/ \E a \in Apps : mount_entered(a)
    \/ \E a \in Apps : mount_raised(a)
    \/ \E a \in Apps : yield_stack(a)
    \/ \E a \in Apps : exit_resume(a)
    \/ \E a \in Apps : exit_pop(a)
    \/ \E a \in Apps : stack_closed(a)
    \/ \E a \in Apps : spawn(a)
    \/ \E a \in Apps : spawn_fails(a)
    \/ \E a \in Apps : open_session(a)
    \/ \E a \in Apps : initialize(a)
    \/ \E a \in Apps : initialize_fails(a)
    \/ \E a \in Apps : list_tools(a)
    \/ \E a \in Apps : list_tools_fails(a)
    \/ \E a \in Apps : register_tool(a)
    \/ \E a \in Apps : yield_session(a)
    \/ \E a \in Apps : close_session(a)
    \/ \E a \in Apps : close_transport(a)
    \/ \E a \in Apps, path \in ToolNames, body \in Bodies,
          credential \in Credentials : dispatch(a, path, body, credential)
    \/ \E r \in Replies : backend_reply(r)
    \/ request_done

Spec == Init /\ [][Next]_vars

-----------------------------------------------------------------------------
(* Fairness.  The event loop runs every coroutine that is ready, so every  *)
(* step that waits for nothing outside the process is eventually taken.    *)
(* Steps that wait for a client, for a signal or for an answer of a        *)
(* backend process (spawn, initialize, list_tools, call_tool) are not.     *)

ProgramStep ==
    \/ run
    \/ serve
    \/ startup_complete
    \/ startup_failed
    \/ lifespan_shutdown
    \/ stopped
    \/ request_done
    \/ \E a \in Apps :
          \/ open_stack(a)
          \/ enter_mount(a)
          \/ mount_entered(a)
          \/ mount_raised(a)
          \/ yield_stack(a)
          \/ exit_resume(a)
          \/ exit_pop(a)
          \/ stack_closed(a)
          \/ open_session(a)
          \/ register_tool(a)
          \/ yield_session(a)
          \/ close_session(a)
          \/ close_transport(a)

SpecLive == Init /\ [][Next]_vars /\ WF_vars(ProgramStep)

-----------------------------------------------------------------------------
(* process_tool_response applied to every bounded CallToolResult *)

InitNorm ==
    /\ server_command = <<>>
    /\ config = NoConfig
    /\ api_key = ""
    /\ InitApps
    /\ callResult \in CallToolResults
    /\ response = <<>>
    /\ normPc = "input"
    /\ InitTypesIdle

normalize ==
    /\ normPc = "input"
    /\ response' = process_tool_response(callResult)
    /\ normPc' = "done"
    /\ UNCHANGED callResult
    /\ UNCHANGED typeVars
    /\ UNCHANGED lifeVars

NextNorm == normalize

SpecNorm == InitNorm /\ [][NextNorm]_vars

-----------------------------------------------------------------------------
(* One pass of the registration loop (lines 74-127) applied to every tool  *)
(* with up to two parameters of any type name, known, unknown or absent.   *)

TypeNames == {"string", "integer", "boolean", "number", "object", "array",
              "null", "uuid"}

ParamSchemas ==
    {ParamSchema(t) : t \in TypeNames}
        \cup {[hasType |-> FALSE, type |-> "", description |-> "d"]}

TypedTools ==
    {[name |-> "typed", description |-> "typed",
      inputSchema |-> [hasProperties |-> TRUE, properties |-> props,
                       hasRequired |-> TRUE, required |-> required]] :
        props \in UNION {[names -> ParamSchemas] :
                            names \in SUBSET {"q", "limit"}},
        required \in {{}, {"q"}}}

InitTypes ==
    /\ server_command = <<>>
    /\ config = NoConfig
    /\ api_key = ""
    /\ InitApps
    /\ InitNormIdle
    /\ toolIn \in TypedTools
    /\ routeOut = <<>>
    /\ regPc = "input"

register_typed ==
    /\ regPc = "input"
    /\ routeOut' = app_post(toolIn, "session", "")
    /\ regPc' = "done"
    /\ UNCHANGED <<toolIn, callResult, response, normPc>>
    /\ UNCHANGED lifeVars

NextTypes == register_typed

SpecTypes == InitTypes /\ [][NextTypes]_vars

-----------------------------------------------------------------------------
(* Vocabulary of the properties *)

HasReq == req # <<>>

\* route i of an app is the one registered from the i-th listed tool
ReqTool == tools[req[1].app][req[1].route]

Routed == HasReq /\ req[1].route # 0

Declared(t) == DOMAIN schema_properties(t.inputSchema)

Omits(body, p) == ~body.present \/ body.fields[p] = "absent"

ClientError(status) == status >= 400 /\ status <= 499

ServerError(status) == status >= 500 /\ status <= 599

Backends == Range(mounts["main"])

MultiBackend == server_command = <<>> /\ Len(mounts["main"]) >= 2

\* backend a is the one whose own spawn, initialize or list_tools raised
StartFailed(a) ==
    /\ mountIdx["main"] < Len(mounts["main"])
    /\ a = mounts["main"][mountIdx["main"] + 1]
    /\ lifePc[a] = "raised"

\* lifespan(a) has reached its yield with every listed tool registered
StartupFinished(a) ==
    /\ lifePc[a] = "yielded"
    /\ regIdx[a] = Len(tools[a])
    /\ Len(routes[a]) = Len(tools[a])
    /\ \A b \in Range(mounts[a]) :
          /\ lifePc[b] = "yielded"
          /\ regIdx[b] = Len(tools[b])
          /\ Len(routes[b]) = Len(tools[b])

-----------------------------------------------------------------------------
(* C1: a request whose body omits a parameter named in the tool's          *)
(* inputSchema required set is answered with a 4xx and issues no           *)
(* call_tool, also when the name is not declared under properties or the   *)
(* properties map is empty.                                                *)
C1_RequiredEnforced ==
    Routed =>
        \A p \in schema_required(ReqTool.inputSchema) :
            Omits(req[1].body, p) =>
                /\ ClientError(req[1].status)
                /\ req[1].calls = <<>>

(* C2: in multi-backend mode a backend whose spawn, initialize or          *)
(* list_tools fails has no endpoint, and every other configured backend    *)
(* still completes its startup and is served.                              *)
C2_FailureIsolation ==
    (MultiBackend /\ \A b \in Backends : command[b] # "") =>
        \A a \in Backends :
            StartFailed(a) =>
                /\ routes[a] = <<>>
                /\ runPc # "startup_failed"
                /\ \A b \in Backends \ {a} :
                      lifePc[b] \notin {"exit_session", "exit_transport",
                                        "exiting", "raised"}

(* C3: when a lifespan has finished, on the normal path or by raising,     *)
(* every transport and session opened under it is closed, and none is open *)
(* once the server has stopped or failed to start.                         *)
C3_AllReleased ==
    /\ \A a \in Apps :
          lifePc[a] \in {"done", "raised"} =>
              \A b \in {a} \cup Range(mounts[a]) :
                  session[b] # "open" /\ transport[b] # "open"
    /\ runPc \in {"stopped", "startup_failed"} =>
          \A a \in Apps : session[a] # "open" /\ transport[a] # "open"

\* two backends were connected, the second failed its own handshake, and
\* the failed startup has closed both sessions
C3_Witness ==
    /\ runPc = "startup_failed"
    /\ StartFailed("B")
    /\ session["A"] = "closed" /\ transport["A"] = "closed"
    /\ session["B"] = "closed" /\ transport["B"] = "closed"

(* C4: per backend, nothing is registered before initialize and list_tools *)
(* have returned, and no request is dispatched to the backend and no       *)
(* call_tool is issued on its session before its last endpoint has been    *)
(* registered.                                                             *)
C4_RegisteredBeforeServing ==
    /\ \A a \in Apps :
          lifePc[a] \in {"unstarted", "start", "spawned", "connected",
                         "initialized"}
              => tools[a] = <<>> /\ regIdx[a] = 0 /\ routes[a] = <<>>
    /\ \A a \in Apps : Len(routes[a]) = regIdx[a]
    /\ HasReq =>
          /\ StartupFinished(req[1].app)
          /\ \A i \in 1..Len(req[1].calls) :
                StartupFinished(req[1].calls[i].session)

\* a call is in flight on a backend that registered two endpoints
C4_Witness ==
    /\ InFlight
    /\ req[1].calls # <<>>
    /\ Len(routes[req[1].app]) = 2

(* C5: a request addressed to one backend only ever calls the session of   *)
(* that backend, also when another backend has a tool of the same name.    *)
C5_NoCrossTalk ==
    HasReq =>
        \A i \in 1..Len(req[1].calls) :
            /\ req[1].calls[i].session = req[1].app
            /\ req[1].calls[i].session = stateSession[req[1].app]

\* both backends expose search, and a request to B's search has called
C5_Witness ==
    /\ HasReq
    /\ req[1].app = "B"
    /\ req[1].path = "search"
    /\ req[1].calls # <<>>
    /\ \E i \in 1..Len(routes["A"]) : routes["A"][i].path = "search"
    /\ session["A"] = "open"

(* C6: when call_tool raises or returns a result marked isError, the       *)
(* response is a 5xx and call_tool was issued exactly once.                *)
C6_FailureIsServerError ==
    (/\ HasReq
     /\ req[1].reply # <<>>
     /\ req[1].reply[1].raised \/ req[1].reply[1].result.isError)
        => /\ ServerError(req[1].status)
           /\ Len(req[1].calls) = 1

(* C7: a request to a tool with declared parameters that passes the API    *)
(* key guard and whose body passes validation issues exactly one           *)
(* call_tool, under the tool's own name,                                   *)
(* whose arguments are exactly the declared parameters that the body       *)
(* carries with a non-null value.                                          *)
C7_ForwardedArguments ==
    (Routed /\ Declared(ReqTool) # {} /\ req[1].status \notin {401, 422}) =>
        /\ Len(req[1].calls) = 1
        /\ req[1].calls[1].name = ReqTool.name
        /\ DOMAIN req[1].calls[1].arguments =
              {p \in Declared(ReqTool) :
                  req[1].body.fields[p] \notin {"absent", "null"}}
        /\ \A p \in DOMAIN req[1].calls[1].arguments :
              req[1].calls[1].arguments[p] = req[1].body.fields[p]

\* search was registered before ping, and a body with q, without limit and
\* with an undeclared key has been forwarded
C7_Witness ==
    /\ Routed
    /\ Len(tools[req[1].app]) = 2
    /\ tools[req[1].app][2].name # ReqTool.name
    /\ Declared(ReqTool) = {"q", "limit"}
    /\ req[1].body.fields["q"] = "v"
    /\ req[1].body.fields["limit"] = "absent"
    /\ req[1].body.fields["extra"] = "v"
    /\ req[1].calls # <<>>

(* C8: every listed tool gets its endpoint, also one whose properties map  *)
(* is empty or absent; that endpoint ignores the body, and every request   *)
(* to it that passes the API key guard issues call_tool with the tool's    *)
(* name and empty arguments.                                               *)
C8_ParameterlessEndpoint ==
    /\ \A a \in Apps :
          /\ Len(routes[a]) = regIdx[a]
          /\ \A i \in 1..Len(routes[a]) :
                /\ routes[a][i].path = tools[a][i].name
                /\ Declared(tools[a][i]) = {}
                      => routes[a][i].endpoint.kind = "no_args"
    /\ (Routed /\ Declared(ReqTool) = {} /\ req[1].status # 401) =>
          /\ ~ClientError(req[1].status)
          /\ req[1].calls = <<call_tool(req[1].app, ReqTool.name, EmptyArgs)>>

\* a tool without a properties key was called with a non-empty body
C8_Witness ==
    /\ Routed
    /\ ~ReqTool.inputSchema.hasProperties
    /\ req[1].body.present
    /\ req[1].body.fields["q"] = "v"
    /\ req[1].calls # <<>>

(* C9: the normalized output has one value per content part, in order; a   *)
(* part that is neither text, image nor embedded resource yields a         *)
(* placeholder at its position.                                            *)
C9_OneValuePerPart ==
    normPc = "done" =>
        /\ Len(response) = Len(callResult.content)
        /\ \A i \in 1..Len(callResult.content) :
              /\ callResult.content[i].type = "resource"
                    => response[i] = NotSupported
              /\ callResult.content[i].type \notin {"text", "resource"}
                    => DOMAIN response[i] = {"str"}

(* C10: run with no server command and with no config path, or with a      *)
(* config file whose mcpServers map is empty or missing, raises ValueError *)
(* before any backend is spawned and before the server serves.             *)
C10_ConfigurationError ==
    (/\ server_command = <<>>
     /\ \/ ~config.given
        \/ ~config.hasServers
        \/ config.mcpServers = <<>>)
        => /\ runPc \in {"start", "ValueError"}
           /\ \A a \in Apps : lifePc[a] = "unstarted" /\ transport[a] = "none"

\* run has raised on a config file without an mcpServers key
C10_Witness ==
    /\ runPc = "ValueError"
    /\ config.given
    /\ ~config.hasServers

(* C11: a configured backend whose entry has no command, or an empty one,  *)
(* makes startup end in an error before the server serves; the server      *)
(* never serves while such a backend sits there without session and        *)
(* without endpoints.                                                      *)
C11_NoCommandIsFatal ==
    (server_command = <<>> /\ config.given) =>
        \A i \in 1..Len(McpServers) :
            (~McpServers[i].hasCommand \/ McpServers[i].command = "") =>
                runPc \notin {"serving", "shutdown", "stopped"}

(* C12: when an API key is configured, every registered tool endpoint of   *)
(* every app, with or without parameters, carries the one guard built from *)
(* that key, and a request the guard rejects issues no call_tool.          *)
C12_SharedGuard ==
    api_key # "" =>
        /\ \A a \in Apps : \A i \in 1..Len(routes[a]) :
              routes[a][i].dependencies = <<get_verify_api_key(api_key)>>
        /\ (Routed /\ req[1].credential # api_key) =>
              /\ req[1].status = 401
              /\ req[1].calls = <<>>

\* with two backends mounted, a request without the key to a parameterless
\* endpoint of the second backend has been rejected
C12_Witness ==
    /\ api_key # ""
    /\ Len(mounts["main"]) = 2
    /\ Routed
    /\ req[1].app = mounts["main"][2]
    /\ routes[req[1].app][req[1].route].endpoint.kind = "no_args"
    /\ req[1].credential = "none"
    /\ req[1].status = 401
    /\ \E i \in 1..Len(routes[mounts["main"][1]]) :
          routes[mounts["main"][1]][i].endpoint.kind = "args"

(* C13: when shutdown is triggered while a tool call is in flight, the     *)
(* shutdown sequence eventually completes, with the call abandoned and no  *)
(* session or transport left open.                                         *)
C13_ShutdownCompletes ==
    (runPc = "shutdown" /\ InFlight)
        ~> (/\ runPc = "stopped"
            /\ \A a \in Apps : session[a] # "open" /\ transport[a] # "open")

\* JSON encoding of a decoded value, and the documents that fit the bound
RECURSIVE Digits(_)
Digits(n) == IF n = 0 THEN <<>> ELSE Digits(n \div 10) \o <<"1">>

RECURSIVE Encode(_)
Encode(v) ==
    IF "int" \in DOMAIN v THEN Digits(v.int)
    ELSE IF v.list = <<>> THEN <<"[", "]">>
    ELSE <<"[">> \o Encode(v.list[1]) \o <<"]">>

RECURSIVE Ones(_)
Ones(k) == IF k = 0 THEN 0 ELSE 10 * Ones(k - 1) + 1

RECURSIVE JsonDocs(_)
JsonDocs(depth) ==
    IF depth = 0 THEN {[int |-> Ones(k)] : k \in 1..MaxTextLen}
    ELSE JsonDocs(depth - 1) \cup {[list |-> <<>>]}
            \cup {[list |-> <<v>>] : v \in JsonDocs(depth - 1)}

\* the place in the output of the value made from part i: the parts of an
\* unknown type before it have produced nothing
Pos(i) ==
    i - Cardinality({j \in 1..(i - 1) :
            callResult.content[j].type \notin {"text", "image", "resource"}})

DocumentedTypes ==
    [t \in {"string", "integer", "boolean", "number", "object", "array"} |->
        CASE t = "string" -> "str"
          [] t = "integer" -> "int"
          [] t = "boolean" -> "bool"
          [] t = "number" -> "float"
          [] t = "object" -> "Dict[str, Any]"
          [] t = "array" -> "list"]

Documented(param_schema) ==
    IF param_schema.hasType /\ param_schema.type \in DOMAIN DocumentedTypes
    THEN DocumentedTypes[param_schema.type]
    ELSE "str"

(* C15: every declared parameter gets the documented type for its type     *)
(* name, and str for any other or absent type name, and the tool is        *)
(* registered whatever its parameter types are.                            *)
C15_TypeMapping ==
    regPc = "done" =>
        /\ Len(routeOut) = 1
        /\ routeOut[1].path = toolIn.name
        /\ toolIn.inputSchema.properties # NoProperties =>
              /\ routeOut[1].endpoint.kind = "args"
              /\ DOMAIN routeOut[1].endpoint.FormModel.fields =
                    DOMAIN toolIn.inputSchema.properties
              /\ \A p \in DOMAIN toolIn.inputSchema.properties :
                    routeOut[1].endpoint.FormModel.fields[p].python_type =
                        Documented(toolIn.inputSchema.properties[p])

\* a tool with a parameter of an unknown type and one without a type has
\* been registered
C15_Witness ==
    /\ regPc = "done"
    /\ DOMAIN toolIn.inputSchema.properties = {"q", "limit"}
    /\ toolIn.inputSchema.properties["q"].type = "uuid"
    /\ ~toolIn.inputSchema.properties["limit"].hasType
    /\ Len(routeOut) = 1

\* one step of the life of the session of backend a
OneSessionStep(a) ==
    /\ session'[a] # session[a] =>
          \/ session[a] = "none" /\ session'[a] = "open" /\ runPc = "startup"
          \/ /\ session[a] = "open" /\ session'[a] = "closed"
             /\ runPc \in {"startup", "shutdown"}
    /\ lifePc[a] = "spawned" /\ lifePc'[a] = "connected" =>
          session[a] = "none"
    /\ lifePc[a] = "exit_session" /\ lifePc'[a] = "exit_transport" =>
          session[a] = "open"
    /\ stateSession[a] # "none" => stateSession'[a] = stateSession[a]

(* C16: the session of a backend is created at most once, during startup,  *)
(* and closed at most once, while the server starts or shuts down; a       *)
(* session that was created or closed is never created again; no session   *)
(* is open once the server has stopped; and every call_tool of a request   *)
(* goes to the one open session of the backend the request addressed.      *)
C16_OneSession ==
    [][/\ \A a \in Apps : OneSessionStep(a)
       /\ runPc' \in {"stopped", "startup_failed"} =>
             \A a \in Apps : session'[a] # "open"
       /\ req = <<>> /\ req' # <<>> =>
             \A i \in 1..Len(req'[1].calls) :
                 /\ req'[1].calls[i].session = stateSession[req'[1].app]
                 /\ session[req'[1].calls[i].session] = "open"]_vars

\* the server has served two backends and stopped, and both sessions that
\* were created are closed
C16_Witness ==
    /\ runPc = "stopped"
    /\ \A a \in Apps : ~exc[a]
    /\ session["A"] = "closed"
    /\ session["B"] = "closed"
    /\ stateSession["A"] = "A"
    /\ stateSession["B"] = "B"

\* the positions at which a lifespan waits for its backend process: the
\* spawn, the answer to initialize, the answer to list_tools
AwaitingBackend == {"start", "connected", "initialized"}

\* backend b has neither finished nor given up its startup
StillStarting(b) ==
    lifePc[b] \in {"unstarted", "start", "spawned", "connected",
                   "initialized", "registering"}

\* some step of the program moves backend b on
CanProgress(b) == ENABLED (Next /\ lifePc'[b] # lifePc[b])

(* C17: with two or more backends, while one backend waits for its spawn,  *)
(* its handshake or its tool listing, every other backend that has not     *)
(* finished its startup can take a step of its own startup.                *)
C17_ConcurrentStartup ==
    (/\ MultiBackend
     /\ runPc = "startup"
     /\ \A b \in Backends : command[b] # "") =>
        \A a, b \in Backends :
            (/\ a # b
             /\ lifePc[a] \in AwaitingBackend
             /\ StillStarting(b)) => CanProgress(b)

\* the positions in the listing of backend a of the tools named name
SameName(a, name) == {i \in 1..Len(tools[a]) : tools[a][i].name = name}

Earliest(S) == CHOOSE i \in S : \A j \in S : i <= j

Latest(S) == CHOOSE i \in S : \A j \in S : j <= i

\* the request went to a path that two listed tools share
Duplicated ==
    /\ Routed
    /\ Cardinality(SameName(req[1].app, req[1].path)) >= 2

\* every listed tool has its own route, in listing order, duplicates included
NoDeduplication ==
    \A a \in Apps :
        /\ Len(routes[a]) = regIdx[a]
        /\ \A i \in 1..Len(routes[a]) :
              /\ routes[a][i].path = tools[a][i].name
              /\ routes[a][i].description = tools[a][i].description

\* the request was handled as the tool descriptor t prescribes
HandledAs(t) ==
    req[1].status # 401 =>
        IF Declared(t) = {}
        THEN /\ req[1].status # 422
             /\ req[1].calls = <<call_tool(req[1].app, t.name, EmptyArgs)>>
        ELSE (\E p \in Declared(t) \cap schema_required(t.inputSchema) :
                 Omits(req[1].body, p))
                => req[1].status = 422 /\ req[1].calls = <<>>

(* C18 as stated: two listed tools of the same name are both registered,   *)
(* and a request to their path is handled by the route of the later one.   *)
C18_LastRegistrationWins ==
    /\ NoDeduplication
    /\ Duplicated =>
          /\ req[1].route = Latest(SameName(req[1].app, req[1].path))
          /\ HandledAs(tools[req[1].app][
                          Latest(SameName(req[1].app, req[1].path))])

(* C18, amended: two listed tools of the same name are both registered,    *)
(* and a request to their path is handled by the route of the earlier one, *)
(* with the validator of the earlier tool descriptor.                      *)
C18_FirstRegistrationWins ==
    /\ NoDeduplication
    /\ Duplicated =>
          /\ req[1].route = Earliest(SameName(req[1].app, req[1].path))
          /\ HandledAs(tools[req[1].app][
                          Earliest(SameName(req[1].app, req[1].path))])

\* search is listed twice, first with a required parameter, then without
\* parameters; a request without a body was rejected by the first validator
C18_Witness ==
    /\ Duplicated
    /\ tools[req[1].app] = <<T_search, T_search2>>
    /\ req[1].body = NoBody
    /\ req[1].route = 1
    /\ req[1].status = 422

\* backend b has completed handshake, tool listing and registration
Ready(b) ==
    /\ lifePc[b] = "yielded"
    /\ session[b] = "open"
    /\ stateSession[b] = b
    /\ regIdx[b] = Len(tools[b])
    /\ Len(routes[b]) = Len(tools[b])

(* C19: with two or more backends the server serves only when every       *)
(* configured backend has completed handshake, tool listing and endpoint   *)
(* registration, and a backend is started only when every backend before   *)
(* it in the configuration has completed them (while the main lifespan is  *)
(* still entering the backends, before it yields or unwinds).              *)
C19_AllOrNothing ==
    MultiBackend =>
        /\ runPc = "serving" => \A b \in Backends : Ready(b)
        /\ (runPc = "startup" /\ lifePc["main"] = "entering") =>
              \A i, j \in 1..Len(mounts["main"]) :
                  (i < j /\ lifePc[mounts["main"][j]] # "unstarted")
                      => Ready(mounts["main"][i])

====
